---- MODULE Spec2Model ----
(***************************************************************************)
(* A model of calendar_parser.py: the time-string parser, the timezone and *)
(* text normalizers, the feed (XML) and ICS extractors, and the            *)
(* CalendarParser store with its lazy parse generators and collection API. *)
(*                                                                         *)
(* Representation.                                                         *)
(*  - A string that the code splits on whitespace is a sequence of tokens; *)
(*    a token is a record [k, v, p]: its lexical kind, its numeric value   *)
(*    and an AM/PM flag (0 = AM, 1 = PM; 0 where it has no meaning).       *)
(*  - A naive datetime is the number of seconds since 2015-01-01 00:00:00; *)
(*    all model dates lie in 2015.                                         *)
(*  - A CalendarEvent (a dict) is a function whose domain is the set of    *)
(*    keys that have been assigned.                                        *)
(*  - A call's outcome is a record [err, val]: err = "none" and the value, *)
(*    or the name of the exception raised.                                 *)
(***************************************************************************)
EXTENDS Integers, Sequences, FiniteSets, TLC

VARIABLES src, cal_data, events, meta, gen, ret, nparse, inp, out

vars == <<src, cal_data, events, meta, gen, ret, nparse, inp, out>>

(* ----------------------------- bounds --------------------------------- *)

\* the longest source document (feed blocks / ICS components) a fetch returns
MaxDoc == 2

\* the number of parse_calendar calls made on one store
MaxParses == 2

(* ----------------------------- helpers -------------------------------- *)

T(k, v, p) == [k |-> k, v |-> v, p |-> p]

Ok(v) == [err |-> "none", val |-> v]

Raise(e) == [err |-> e, val |-> 0]

Max(S) == CHOOSE m \in S : \A n \in S : n <= m

Take(s, n) == SubSeq(s, 1, IF Len(s) < n THEN Len(s) ELSE n)

RECURSIVE Reverse(_)
Reverse(s) == IF s = <<>> THEN <<>> ELSE Reverse(Tail(s)) \o <<Head(s)>>

\* event_dict[key] = value
Put(d, key, value) == [x \in DOMAIN d \cup {key} |-> IF x = key THEN value ELSE d[x]]

\* CalendarEvent()
EmptyEvent == [x \in {} |-> 0]

(* ------------------------ datetime arithmetic ------------------------- *)

DaysBeforeMonth == <<0, 31, 59, 90, 120, 151, 181, 212, 243, 273, 304, 334, 365>>

\* datetime(year, month, day, hour, minute, second)
DateTime(y, m, d, hh, mm, ss) ==
    ((y - 2015) * 365 + DaysBeforeMonth[m] + (d - 1)) * 86400 + hh * 3600 + mm * 60 + ss

\* datetime.hour, .minute, .second, .month, .day
HourOf(dt) == (dt % 86400) \div 3600

MinuteOf(dt) == (dt % 3600) \div 60

SecondOf(dt) == dt % 60

DayOfYear(dt) == (dt \div 86400) % 365

MonthOf(dt) == CHOOSE m \in 1..12 :
    DaysBeforeMonth[m] <= DayOfYear(dt) /\ DayOfYear(dt) < DaysBeforeMonth[m + 1]

DayOf(dt) == DayOfYear(dt) - DaysBeforeMonth[MonthOf(dt)] + 1

\* timedelta(days=1)
OneDay == 86400

(* ------------------------------ _parse_time --------------------------- *)

\* "." in time_str, for a one-token string
HasDot(tok) == tok.k \in {"isofrac", "dotword"}

\* time_str.rsplit('.', 1)[0]
RSplitDot(tok) ==
    IF tok.k = "isofrac" THEN T("iso", tok.v, 0)
    ELSE IF tok.k = "dotword" THEN T("word", tok.v, 0)
    ELSE tok

IsDatePrefix(s) ==
    /\ Len(s) >= 4
    /\ s[1].k = "wd" /\ s[2].k = "mon" /\ s[3].k = "dayc" /\ s[4].k = "year"

DatePrefixValue(s) == DateTime(s[4].v, s[2].v, s[3].v, 0, 0, 0)

\* %I with %p: the 12-hour clock to the 24-hour clock
Hour24(h12, pm) == (h12 % 12) + 12 * pm

\* strptime(time_str, TIME_FORMATS[i]) does not raise ValueError
StrptimeMatches(s, i) ==
    CASE i = 1 -> Len(s) = 5 /\ IsDatePrefix(s) /\ s[5].k = "hm"
      [] i = 2 -> Len(s) = 5 /\ IsDatePrefix(s) /\ s[5].k = "h"
      [] i = 3 -> Len(s) = 4 /\ IsDatePrefix(s)
      [] i = 4 -> Len(s) = 1 /\ s[1].k = "iso"

\* datetime.fromtimestamp(mktime(strptime(time_str, TIME_FORMATS[i])))
StrptimeValue(s, i) ==
    CASE i = 1 -> DatePrefixValue(s) + Hour24(s[5].v \div 60, s[5].p) * 3600 + (s[5].v % 60) * 60
      [] i = 2 -> DatePrefixValue(s) + Hour24(s[5].v, s[5].p) * 3600
      [] i = 3 -> DatePrefixValue(s)
      [] i = 4 -> s[1].v

\* bool(reference_date): None and "" are falsy
Truthy(reference_date) == reference_date.set /\ reference_date.s # <<>>

NoReference == [set |-> FALSE, s |-> <<>>]

Reference(s) == [set |-> TRUE, s |-> s]

\* the string handed to strptime
CompletedTimeStr(time_str, reference_date) ==
    IF Len(time_str) = 1
    THEN IF HasDot(time_str[1])
         THEN <<RSplitDot(time_str[1])>>
         ELSE Take(reference_date.s, 4) \o time_str
    ELSE time_str

\* _parse_time(time_str, reference_date=None)
ParseTime(time_str, reference_date) ==
    IF Len(time_str) = 1 /\ ~HasDot(time_str[1]) /\ ~Truthy(reference_date)
    THEN Raise("AssertionError")
    ELSE LET s == CompletedTimeStr(time_str, reference_date)
             matching == {i \in 1..4 : StrptimeMatches(s, i)}
         IN  IF matching = {} THEN Raise("ValueError")
             ELSE Ok(StrptimeValue(s, Max(matching)))

(* --------------------- _fix_timezone, _normalize ---------------------- *)

\* A value of an ICS date/time property: kind "aware" (a datetime with a
\* tzinfo whose UTC offset is off), "naive" (a datetime without tzinfo) or
\* "date" (a date); t is its wall-clock reading.  A time zone is its UTC
\* offset in seconds.
Aware(t, off) == [kind |-> "aware", t |-> t, off |-> off]

Naive(t) == [kind |-> "naive", t |-> t, off |-> 0]

DateOnly(t) == [kind |-> "date", t |-> t, off |-> 0]

\* _fix_timezone(datetime_obj, time_zone)
FixTimezone(datetime_obj, time_zone) ==
    IF datetime_obj.kind = "aware"
    THEN datetime_obj.t - datetime_obj.off + time_zone
    ELSE IF datetime_obj.kind = "date"
    THEN DateTime(2015, MonthOf(datetime_obj.t), DayOf(datetime_obj.t), 0, 0, 0)
    ELSE datetime_obj.t

\* _normalize(data_string): unescape, replace the artifact sequences, strip
Normalize(data_string) ==
    CASE data_string = " Lunch " -> "Lunch"
      [] data_string = "R&amp;D" -> "R&D"
      [] data_string = "Room&nbsp;1" -> "Room 1"
      [] OTHER -> data_string

\* str.lower()
Lower(s) ==
    CASE s = "Team" -> "team"
      [] s = "TEAM" -> "team"
      [] s = "R&D" -> "r&d"
      [] s = "r&D" -> "r&d"
      [] OTHER -> s

(* --------------------------- parse_ics: one VEVENT -------------------- *)

\* a day-of-month number / a weekday code, as stored in repeat_day
DayNumber(n) == [n |-> n]

WeekdayCode(c) == [wd |-> c]

\* if "<PROP>" in event: event_dict[key] = _normalize(event[prop])
CopyText(d, p, prop, key) ==
    IF prop \in DOMAIN p THEN Put(d, key, Normalize(p[prop])) ELSE d

\* if "LOCATION" in event and event["location"]: ...
CopyLocation(d, p) ==
    IF "LOCATION" \in DOMAIN p /\ p["LOCATION"] # ""
    THEN Put(d, "location", Normalize(p["LOCATION"])) ELSE d

\* if "<PROP>" in event: event_dict[key] = _fix_timezone(event[prop].dt, self.time_zone)
CopyTime(d, p, prop, key, time_zone) ==
    IF prop \in DOMAIN p THEN Put(d, key, FixTimezone(p[prop], time_zone)) ELSE d

\* name, description, location, start_time, end_time, and repeats = False
IcsBasicFields(event, time_zone) ==
    Put(CopyTime(CopyTime(CopyLocation(CopyText(CopyText(EmptyEvent,
            event.props, "SUMMARY", "name"),
            event.props, "DESCRIPTION", "description"),
            event.props),
            event.props, "DTSTART", "start_time", time_zone),
            event.props, "DTEND", "end_time", time_zone),
        "repeats", FALSE)

\* all_day, in the "YEARLY" branch; d has a start_time
IcsYearlyAllDay(d) ==
    IF HourOf(d["start_time"]) = 0 /\ MinuteOf(d["start_time"]) = 0
    THEN IF "end_time" \notin DOMAIN d THEN Raise("KeyError")
         ELSE Ok(Put(d, "all_day", d["end_time"] - d["start_time"] = OneDay))
    ELSE Ok(Put(d, "all_day", FALSE))

\* the "YEARLY" branch: repeat_day, repeat_month and all_day from start_time
IcsYearly(d) ==
    IF "start_time" \notin DOMAIN d THEN Raise("KeyError")
    ELSE IcsYearlyAllDay(Put(Put(d, "repeat_day", DayNumber(DayOf(d["start_time"]))),
                             "repeat_month", MonthOf(d["start_time"])))

\* IcsRepeatDay with the two tests in the other order
IcsRepeatDayMonthdayFirst(d, rep_dict) ==
    IF "BYMONTHDAY" \in DOMAIN rep_dict
    THEN Put(d, "repeat_day", DayNumber(rep_dict["BYMONTHDAY"][1]))
    ELSE IF "BYDAY" \in DOMAIN rep_dict
    THEN Put(d, "repeat_day", rep_dict["BYDAY"][1])
    ELSE d

\* if "BYDAY" in rep_dict: ... elif "BYMONTHDAY" in rep_dict: ...
IcsRepeatDay(d, rep_dict) ==
    IF "BYDAY" \in DOMAIN rep_dict
    THEN Put(d, "repeat_day", rep_dict["BYDAY"][1])
    ELSE IF "BYMONTHDAY" \in DOMAIN rep_dict
    THEN Put(d, "repeat_day", DayNumber(rep_dict["BYMONTHDAY"][1]))
    ELSE d

\* if "BYMONTH" in rep_dict: ...
IcsRepeatMonth(d, rep_dict) ==
    IF "BYMONTH" \in DOMAIN rep_dict
    THEN Put(d, "repeat_month", rep_dict["BYMONTH"][1]) ELSE d

\* if "UNTIL" in rep_dict: ...
IcsRepeatUntil(d, rep_dict, time_zone) ==
    IF "UNTIL" \in DOMAIN rep_dict
    THEN Put(d, "repeat_until", FixTimezone(rep_dict["UNTIL"][1], time_zone)) ELSE d

\* BYDAY / BYMONTHDAY, BYMONTH, UNTIL, applied to the outcome of the lines above
IcsRuleOverrides(r, rep_dict, time_zone) ==
    IF r.err # "none" THEN r
    ELSE Ok(IcsRepeatUntil(IcsRepeatMonth(IcsRepeatDay(r.val, rep_dict), rep_dict),
                           rep_dict, time_zone))

\* if "RRULE" in event: ..., for the dict d filled so far
IcsRecurrence(d, rep_dict, time_zone) ==
    IF "FREQ" \notin DOMAIN rep_dict THEN Raise("KeyError")
    ELSE IcsRuleOverrides(
             IF rep_dict["FREQ"][1] = "YEARLY"
             THEN IcsYearly(Put(Put(d, "repeats", TRUE), "repeat_freq", rep_dict["FREQ"][1]))
             ELSE Ok(Put(Put(d, "repeats", TRUE), "repeat_freq", rep_dict["FREQ"][1])),
             rep_dict, time_zone)

\* the body of parse_ics's loop for one Event component: the CalendarEvent
\* it yields, or the exception that ends the generator
ParseIcsEvent(event, time_zone) ==
    IF "RRULE" \notin DOMAIN event.props THEN Ok(IcsBasicFields(event, time_zone))
    ELSE IcsRecurrence(IcsBasicFields(event, time_zone), event.props["RRULE"], time_zone)

(* ----------------------- parse_xml: one content block ----------------- *)

\* A content block of the feed is [name, when, lines]: the text at
\* event.next.next, the text at event.contents[1].next, and the children of
\* event.contents[2] (each a token sequence; a Tag stands for its first child).

\* "<a> <b>" in content
ContainsPair(line, a, b) ==
    \E i \in 1..(Len(line) - 1) : line[i].k = a /\ line[i + 1].k = b

\* "<a>" in content
ContainsWord(line, a) == \E i \in 1..Len(line) : line[i].k = a

\* "<a> " in content: the word, followed by a blank and more text
ContainsPrefix(line, a) == \E i \in 1..(Len(line) - 1) : line[i].k = a

\* string.replace("<a> ", "", 1)
RemoveFirstPrefix(line, a) ==
    IF ContainsPrefix(line, a)
    THEN LET i == CHOOSE j \in 1..(Len(line) - 1) :
                      line[j].k = a /\ \A h \in 1..(j - 1) : line[h].k # a
         IN  SubSeq(line, 1, i - 1) \o SubSeq(line, i + 1, Len(line))
    ELSE line

\* string.replace("<a> ", "")
RECURSIVE RemovePrefixes(_, _)
RemovePrefixes(line, a) ==
    IF ContainsPrefix(line, a) THEN RemovePrefixes(RemoveFirstPrefix(line, a), a) ELSE line

\* string.replace("Event Description: ", "")
RECURSIVE RemoveDescriptionPrefixes(_)
RemoveDescriptionPrefixes(line) ==
    IF \E i \in 1..(Len(line) - 2) : line[i].k = "Event" /\ line[i + 1].k = "Description:"
    THEN LET i == CHOOSE j \in 1..(Len(line) - 2) :
                      /\ line[j].k = "Event" /\ line[j + 1].k = "Description:"
                      /\ \A h \in 1..(j - 1) : ~(line[h].k = "Event" /\ line[h + 1].k = "Description:")
         IN  RemoveDescriptionPrefixes(SubSeq(line, 1, i - 1) \o SubSeq(line, i + 2, Len(line)))
    ELSE line

\* when.split(" to ")
RECURSIVE SplitTo(_)
SplitTo(when) ==
    IF \E i \in 2..(Len(when) - 1) : when[i].k = "to"
    THEN LET i == CHOOSE j \in 2..(Len(when) - 1) :
                      when[j].k = "to" /\ \A h \in 2..(j - 1) : when[h].k # "to"
         IN  <<SubSeq(when, 1, i - 1)>> \o SplitTo(SubSeq(when, i + 1, Len(when)))
    ELSE <<when>>

\* the "First start:" branch
FeedFirstStart(d, content) ==
    LET rep_info == SubSeq(content, 3, Len(content) - 1)
    IN  IF rep_info = <<>> THEN Raise("IndexError")
        ELSE IF rep_info[1].k # "ymd" THEN Raise("ValueError")
        ELSE IF Len(rep_info) = 2
        THEN IF rep_info[2].k # "hms" THEN Raise("ValueError")
             ELSE Ok(Put(d, "start_time", rep_info[1].v + rep_info[2].v))
        ELSE Ok(Put(d, "start_time", rep_info[1].v))

\* the "Duration:" branch
FeedDuration(d, content) ==
    IF content[Len(content)].k # "int" THEN Raise("ValueError")
    ELSE IF "start_time" \notin DOMAIN d THEN Raise("KeyError")
    ELSE Ok(Put(d, "end_time", d["start_time"] + content[Len(content)].v))

\* the all_day decision that ends the "When: " branch
FeedAllDay(d) ==
    IF /\ "end_time" \notin DOMAIN d
       /\ HourOf(d["start_time"]) = 0
       /\ MinuteOf(d["start_time"]) = 0
    THEN Put(Put(d, "all_day", TRUE), "end_time", d["start_time"] + OneDay)
    ELSE Put(d, "all_day", FALSE)

\* event_dict["start_time"] = _parse_time(start), then the all_day decision
FeedWhenStart(d, start) ==
    IF start.err # "none" THEN start
    ELSE Ok(FeedAllDay(Put(d, "start_time", start.val)))

\* start, end = when; event_dict["end_time"] = _parse_time(end, start)
FeedWhenEnd(d, end, start_str) ==
    IF end.err # "none" THEN end
    ELSE FeedWhenStart(Put(d, "end_time", end.val), ParseTime(start_str, NoReference))

\* when = when.split(" to "), and what follows
FeedWhenParts(d, when) ==
    IF Len(when) = 2
    THEN FeedWhenEnd(d, ParseTime(when[2], Reference(when[1])), when[1])
    ELSE FeedWhenStart(d, ParseTime(when[1], NoReference))

\* if len(when.split()) > 4: when = when.rsplit(" ", 1)[0]
DropTimezone(when) == IF Len(when) > 4 THEN SubSeq(when, 1, Len(when) - 1) ELSE when

\* the "When: " branch; event_when is the text at event.contents[1].next
FeedWhen(d, event_when) ==
    FeedWhenParts(d, SplitTo(DropTimezone(RemoveFirstPrefix(event_when, "When:"))))

\* the elif chain applied to one child of event.contents[2]
FeedLine(d, content, event_when) ==
    IF ContainsPair(content, "Recurring", "Event") THEN Ok(Put(d, "repeats", TRUE))
    ELSE IF d["repeats"]
    THEN IF ContainsPair(content, "First", "start:") THEN FeedFirstStart(d, content)
         ELSE IF ContainsWord(content, "Duration:") THEN FeedDuration(d, content)
         ELSE Ok(d)
    ELSE IF ContainsPrefix(content, "When:") THEN FeedWhen(d, event_when)
    ELSE IF ContainsPrefix(content, "Where:")
    THEN Ok(Put(d, "location", RemovePrefixes(content, "Where:")))
    ELSE IF \E i \in 1..(Len(content) - 2) :
                content[i].k = "Event" /\ content[i + 1].k = "Description:"
    THEN Ok(Put(d, "description", RemoveDescriptionPrefixes(content)))
    ELSE Ok(d)

\* for content in event.contents[2]: ...
RECURSIVE FeedLines(_, _, _)
FeedLines(r, lines, event_when) ==
    IF r.err # "none" \/ lines = <<>> THEN r
    ELSE FeedLines(FeedLine(r.val, Head(lines), event_when), Tail(lines), event_when)

\* the body of parse_xml's loop for one content block: the CalendarEvent it
\* yields, or the exception that ends the generator
ParseXmlEvent(event) ==
    FeedLines(Ok(Put(Put(EmptyEvent, "name", Normalize(event.name)), "repeats", FALSE)),
              event.lines, event.when)

(* ------------------------------ CalendarParser ------------------------ *)

\* The state of a CalendarParser:
\*   src     which of ics_url, xml_url, ics_file, xml_file are set
\*   cal_data the document held by the source fetch_calendar reads (the same
\*           document at every fetch)
\*   events  self.events
\*   meta    self.time_zone and self.title
\*   gen     the generator the latest parse_calendar call returned: its
\*           position st ("none": no generator; "fresh": not yet advanced;
\*           "running"; "done": exhausted; "failed": ended by an exception,
\*           recorded in err), its arguments (forced: use_xml or use_ics
\*           was given), the part of the fetched document not yet walked,
\*           document, and three history fields: pre (self.events when
\*           parse_calendar was called), out (the records yielded so far) and
\*           mut (a sort in place has replaced self.events since the call)
\*   ret     the operation last called and its outcome
\*   nparse  the number of parse_calendar calls so far
\* A caller that calls parse_calendar again drops the earlier generator.

NoGen ==
    [st |-> "none", kind |-> "none", ow |-> FALSE, forced |-> FALSE,
     doc |-> <<>>, pre |-> <<>>, out |-> <<>>, mut |-> FALSE, err |-> "none"]

NoMeta == [time_zone |-> 0, title |-> ""]

\* the format of the data fetch_calendar reads: the first source set, in the
\* order xml_url, ics_url, xml_file, ics_file
FetchedFormat(s) ==
    IF s.xml_url THEN "xml"
    ELSE IF s.ics_url THEN "ics"
    ELSE IF s.xml_file THEN "xml"
    ELSE IF s.ics_file THEN "ics"
    ELSE "UnboundLocalError"

\* the parser fetch_calendar hands the data to: "xml" (BeautifulStoneSoup),
\* "ics" (Calendar.from_ical), or "none" (self.calendar is left as it was)
FetchParser(s, force_xml, force_ics) ==
    IF (s.xml_url \/ s.xml_file) /\ ~force_ics THEN "xml"
    ELSE IF (s.ics_url \/ s.ics_file) /\ ~force_xml THEN "ics"
    ELSE "none"

\* fetch_calendar(force_xml, force_ics): "ok", or the exception raised.  A
\* parser handed data of the other format fails (ValueError from from_ical).
FetchCalendar(s, force_xml, force_ics) ==
    IF FetchedFormat(s) = "UnboundLocalError" THEN "UnboundLocalError"
    ELSE IF FetchParser(s, force_xml, force_ics) = "none" THEN "AttributeError"
    ELSE IF FetchParser(s, force_xml, force_ics) # FetchedFormat(s) THEN "ValueError"
    ELSE "ok"

\* the assert that opens parse_ics / parse_xml
SourceAssert(s, kind) == IF kind = "ics" THEN s.ics_url \/ s.ics_url ELSE s.xml_url \/ s.xml_url

\* the generator parse_calendar picks: "ics", "xml" or "none"
SelectGenerator(s, use_xml, use_ics) ==
    IF (s.ics_url \/ s.ics_file) /\ (use_ics \/ ~use_xml) THEN "ics"
    ELSE IF (s.xml_url \/ s.xml_file) /\ (use_xml \/ ~use_ics) THEN "xml"
    ELSE "none"

\* for event in self.calendar.walk(): if isinstance(event, Event)
RECURSIVE SkipNonEvents(_)
SkipNonEvents(doc) ==
    IF doc # <<>> /\ Head(doc).type # "VEVENT" THEN SkipNonEvents(Tail(doc)) ELSE doc

ParseUnit(kind, unit, time_zone) ==
    IF kind = "ics" THEN ParseIcsEvent(unit, time_zone) ELSE ParseXmlEvent(unit)

GenFail(st, e) ==
    [st EXCEPT !.gen.st = "failed", !.gen.err = e, !.gen.doc = <<>>,
               !.ret = [op |-> "next", err |-> e, val |-> 0]]

\* GenFetched without "if overwrite_events: self.events = []"
GenFetchedKeepsEvents(st, f, document) ==
    IF f # "ok" THEN GenFail(st, f)
    ELSE [st EXCEPT !.meta = [time_zone |-> document.tz, title |-> document.title],
                    !.gen.st = "running",
                    !.gen.doc = document.units]

\* the metadata, and "if overwrite_events: self.events = []"
GenFetched(st, f, document) ==
    IF f # "ok" THEN GenFail(st, f)
    ELSE [st EXCEPT !.meta = [time_zone |-> document.tz, title |-> document.title],
                    !.events = IF st.gen.ow THEN <<>> ELSE st.events,
                    !.gen.st = "running",
                    !.gen.doc = document.units]

\* the code of parse_ics / parse_xml before the loop, run by the first next():
\* the assert, fetch_calendar, the metadata, and "if overwrite_events:
\* self.events = []"; document is what the source holds
GenBegin(s, st, document) ==
    IF ~SourceAssert(s, st.gen.kind) THEN GenFail(st, "AssertionError")
    ELSE GenFetched(st, FetchCalendar(s, st.gen.kind = "xml", st.gen.kind = "ics"), document)

\* GenYield with the append not guarded by overwrite_events
GenYieldAlwaysAppends(st, doc, r) ==
    IF r.err # "none" THEN GenFail(st, r.err)
    ELSE [st EXCEPT !.events = Append(st.events, r.val),
                    !.gen.doc = Tail(doc),
                    !.gen.out = Append(st.gen.out, r.val),
                    !.ret = [op |-> "next", err |-> "none", val |-> r.val]]

\* "if overwrite_events: self.events.append(event_dict)" and "yield event_dict",
\* for the outcome r of the loop body on the first unit of doc
GenYield(st, doc, r) ==
    IF r.err # "none" THEN GenFail(st, r.err)
    ELSE [st EXCEPT !.events = IF st.gen.ow THEN Append(st.events, r.val) ELSE st.events,
                    !.gen.doc = Tail(doc),
                    !.gen.out = Append(st.gen.out, r.val),
                    !.ret = [op |-> "next", err |-> "none", val |-> r.val]]

\* the loop over the units doc from the current one up to the next yield, or
\* to the end of the generator
GenUnits(st, doc) ==
    IF doc = <<>>
    THEN [st EXCEPT !.gen.st = "done", !.gen.doc = <<>>,
                    !.ret = [op |-> "next", err |-> "StopIteration", val |-> 0]]
    ELSE GenYield(st, doc, ParseUnit(st.gen.kind, Head(doc), st.meta.time_zone))

GenLoop(st) ==
    GenUnits(st, IF st.gen.kind = "ics" THEN SkipNonEvents(st.gen.doc) ELSE st.gen.doc)

\* the loop, unless the code before it has ended the generator
GenContinue(st) == IF st.gen.st = "failed" THEN st ELSE GenLoop(st)

\* next(generator)
GenAdvance(s, st, document) ==
    IF st.gen.st = "fresh" THEN GenContinue(GenBegin(s, st, document)) ELSE GenLoop(st)

\* [event for event in generator]
RECURSIVE GenExhaust(_, _, _)
GenExhaust(s, st, document) ==
    IF st.gen.st \in {"done", "failed"} THEN st
    ELSE GenExhaust(s, GenAdvance(s, st, document), document)

(* ------------------------- the collection API ------------------------- *)

\* __getitem__(item) for a str item: one record, a list of records, or an
\* exception; event["name"] raises KeyError on a record without a name
GetItem(evs, item) ==
    IF \E i \in 1..Len(evs) : "name" \notin DOMAIN evs[i] THEN Raise("KeyError")
    ELSE LET Matches(e) == Lower(e["name"]) = Lower(item)
             event_list == SelectSeq(evs, Matches)
         IN  IF Len(event_list) = 0 THEN Raise("LookupError")
             ELSE IF Len(event_list) = 1 THEN Ok([one |-> TRUE, items |-> event_list])
             ELSE Ok([one |-> FALSE, items |-> event_list])

\* __contains__(item) for a str item
RECURSIVE Contains(_, _)
Contains(evs, item) ==
    IF evs = <<>> THEN Ok(FALSE)
    ELSE IF "name" \notin DOMAIN Head(evs) THEN Raise("KeyError")
    ELSE IF Lower(Head(evs)["name"]) = Lower(item) THEN Ok(TRUE)
    ELSE Contains(Tail(evs), item)

\* CalendarEvent.__lt__
EventLt(a, b) == a["start_time"] < b["start_time"]

\* a stable insertion: x goes before the first record it is less than
RECURSIVE InsertSorted(_, _)
InsertSorted(s, x) ==
    IF s = <<>> THEN <<x>>
    ELSE IF EventLt(x, Head(s)) THEN <<x>> \o s
    ELSE <<Head(s)>> \o InsertSorted(Tail(s), x)

RECURSIVE StableSort(_)
StableSort(s) ==
    IF s = <<>> THEN <<>>
    ELSE InsertSorted(StableSort(SubSeq(s, 1, Len(s) - 1)), s[Len(s)])

\* sorted(self.events): comparing raises KeyError on a record without start_time
SortedAscending(evs) ==
    IF Len(evs) >= 2 /\ \E i \in 1..Len(evs) : "start_time" \notin DOMAIN evs[i]
    THEN Raise("KeyError")
    ELSE Ok(StableSort(evs))

\* SortedDescending as the ascending result reversed
SortedDescendingByReversal(evs) ==
    IF Len(evs) >= 2 /\ \E i \in 1..Len(evs) : "start_time" \notin DOMAIN evs[i]
    THEN Raise("KeyError")
    ELSE Ok(Reverse(StableSort(evs)))

\* sorted(self.events, reverse=True): the list is reversed, sorted and reversed
\* again, which keeps records that compare equal in their original order
SortedDescending(evs) ==
    IF Len(evs) >= 2 /\ \E i \in 1..Len(evs) : "start_time" \notin DOMAIN evs[i]
    THEN Raise("KeyError")
    ELSE Ok(Reverse(StableSort(Reverse(evs))))

(* ------------------------- the source documents ----------------------- *)

SeqsUpTo(S, n) == UNION {[1..k -> S] : k \in 0..n}

Tz(off) == T("tz", off, 0)

DateTokens(m, d) == <<T("wd", 0, 0), T("mon", m, 0), T("dayc", d, 0), T("year", 2015, 0)>>

PacificOffset == 0 - 28800

\* the components an ICS document of the store is made of
StoreComponents ==
    { [type |-> "VEVENT",
       props |-> [SUMMARY |-> "Team",
                  DTSTART |-> Aware(DateTime(2015, 1, 5, 18, 0, 0), 0),
                  DTEND |-> Aware(DateTime(2015, 1, 5, 19, 0, 0), 0)]],
      [type |-> "VEVENT",
       props |-> [SUMMARY |-> "TEAM",
                  DTSTART |-> Aware(DateTime(2015, 1, 5, 18, 0, 0), 0),
                  DTEND |-> Aware(DateTime(2015, 1, 5, 20, 0, 0), 0)]],
      [type |-> "VEVENT",
       props |-> [DTSTART |-> Naive(DateTime(2015, 1, 5, 9, 0, 0))]],
      [type |-> "VEVENT",
       props |-> [SUMMARY |-> "R&amp;D", RRULE |-> [FREQ |-> <<"YEARLY">>]]],
      [type |-> "VTIMEZONE", props |-> EmptyEvent] }

\* the content blocks a feed document of the store is made of
StoreBlocks ==
    { [name |-> "Team",
       when |-> <<T("When:", 0, 0)>> \o DateTokens(1, 5)
                \o <<T("h", 10, 0), T("to", 0, 0), T("h", 11, 0), Tz(PacificOffset)>>,
       lines |-> << <<T("When:", 0, 0)>> \o DateTokens(1, 5)
                    \o <<T("h", 10, 0), T("to", 0, 0), T("h", 11, 0), Tz(PacificOffset)>>,
                    <<T("Where:", 0, 0), T("word", 1, 0)>> >>],
      [name |-> "R&amp;D", when |-> <<T("word", 2, 0)>>, lines |-> <<>>] }

IcsDocuments ==
    {[tz |-> PacificOffset, title |-> "ics", units |-> u] : u \in SeqsUpTo(StoreComponents, MaxDoc)}

FeedDocuments ==
    {[tz |-> PacificOffset, title |-> "feed", units |-> u] : u \in SeqsUpTo(StoreBlocks, MaxDoc)}

NoDocument == [tz |-> 0, title |-> "", units |-> <<>>]

\* the documents a source holding data of the given format may hold
Documents(format) ==
    IF format = "ics" THEN IcsDocuments
    ELSE IF format = "xml" THEN FeedDocuments
    ELSE {NoDocument}

LookupKeys == {"team", "r&D", "nobody"}

(* ------------------------------ operations ---------------------------- *)

\* the constructor's arguments, each set or unset
Sources == [ics_url : BOOLEAN, xml_url : BOOLEAN, ics_file : BOOLEAN, xml_file : BOOLEAN]

NoSource == [ics_url |-> FALSE, xml_url |-> FALSE, ics_file |-> FALSE, xml_file |-> FALSE]

StoreState == [events |-> events, meta |-> meta, gen |-> gen, ret |-> ret]

\* CalendarParser(ics_url, xml_url, ics_file, xml_file)
Init ==
    /\ src \in Sources
    /\ cal_data \in Documents(FetchedFormat(src))
    /\ events = <<>>
    /\ meta = NoMeta
    /\ gen = NoGen
    /\ ret = [op |-> "init", err |-> "none", val |-> 0]
    /\ nparse = 0
    /\ inp = [f |-> "none"]
    /\ out = Raise("pending")

\* the store after a step that left it as st
Install(st) ==
    /\ events' = st.events
    /\ meta' = st.meta
    /\ gen' = st.gen
    /\ ret' = st.ret

\* return [event for event in generator]
Materialized(st) ==
    [st EXCEPT !.ret = [op |-> "parse_calendar", err |-> st.gen.err, val |-> st.gen.out]]

\* the generator object parse_ics / parse_xml returns
NewGenerator(kind, use_xml, use_ics, overwrite_events) ==
    [NoGen EXCEPT !.st = "fresh", !.kind = kind, !.ow = overwrite_events,
                  !.forced = (use_xml \/ use_ics), !.pre = events]

\* parse_calendar with a generator of the given kind
ParseWith(kind, force_list, use_xml, use_ics, overwrite_events) ==
    IF kind = "none"
    THEN Install([StoreState EXCEPT
                     !.gen = NoGen,
                     !.ret = IF force_list
                             THEN [op |-> "parse_calendar", err |-> "TypeError", val |-> 0]
                             ELSE [op |-> "parse_calendar", err |-> "none", val |-> "None"]])
    ELSE IF force_list
    THEN Install(Materialized(GenExhaust(src,
             [StoreState EXCEPT !.gen = NewGenerator(kind, use_xml, use_ics, overwrite_events)],
             cal_data)))
    ELSE Install([StoreState EXCEPT
                     !.gen = NewGenerator(kind, use_xml, use_ics, overwrite_events),
                     !.ret = [op |-> "parse_calendar", err |-> "none", val |-> "generator"]])

\* parse_calendar(force_list, use_xml, use_ics, overwrite_events)
ParseCalendar(force_list, use_xml, use_ics, overwrite_events) ==
    /\ nparse < MaxParses
    /\ nparse' = nparse + 1
    /\ ParseWith(SelectGenerator(src, use_xml, use_ics),
                 force_list, use_xml, use_ics, overwrite_events)
    /\ UNCHANGED <<src, cal_data, inp, out>>

\* next(generator), for the generator parse_calendar returned
GenNext ==
    /\ gen.st \in {"fresh", "running"}
    /\ Install(GenAdvance(src, StoreState, cal_data))
    /\ UNCHANGED <<src, cal_data, nparse, inp, out>>

Outcome(name, r) == [op |-> name, err |-> r.err, val |-> r.val]

\* parser[item]
Lookup(item) ==
    /\ ret' = Outcome("getitem", GetItem(events, item))
    /\ UNCHANGED <<src, cal_data, events, meta, gen, nparse, inp, out>>

\* item in parser
Membership(item) ==
    /\ ret' = Outcome("contains", Contains(events, item))
    /\ UNCHANGED <<src, cal_data, events, meta, gen, nparse, inp, out>>

SortCall(name, sorted, sort_in_place) ==
    /\ ret' = Outcome(name, sorted)
    /\ IF sort_in_place /\ sorted.err = "none"
       THEN /\ events' = sorted.val
            /\ gen' = IF gen.st = "none" THEN gen ELSE [gen EXCEPT !.mut = TRUE]
       ELSE UNCHANGED <<events, gen>>
    /\ UNCHANGED <<src, cal_data, meta, nparse, inp, out>>

\* sort_by_oldest(sort_in_place)
SortByOldest(sort_in_place) == SortCall("sort_by_oldest", SortedAscending(events), sort_in_place)

\* sort_by_latest(sort_in_place)
SortByLatest(sort_in_place) == SortCall("sort_by_latest", SortedDescending(events), sort_in_place)

\* A store whose parse generators are driven step by step, with sorts in
\* place in between.
Next ==
    \/ \E fl, ux, ui, ow \in BOOLEAN : ParseCalendar(fl, ux, ui, ow)
    \/ GenNext
    \/ SortByOldest(TRUE)
    \/ SortByLatest(TRUE)

Spec == Init /\ [][Next]_vars

\* A store filled by materialized parses (force_list) and then queried.
NextQuery ==
    \/ \E ux, ui, ow \in BOOLEAN : ParseCalendar(TRUE, ux, ui, ow)
    \/ \E item \in LookupKeys : Lookup(item)
    \/ \E item \in LookupKeys : Membership(item)
    \/ \E ip \in BOOLEAN : SortByOldest(ip)
    \/ \E ip \in BOOLEAN : SortByLatest(ip)

SpecQuery == Init /\ [][NextQuery]_vars

(* --------------------- _parse_time on its own ------------------------- *)

StoreIdle ==
    /\ src = NoSource
    /\ cal_data = NoDocument
    /\ events = <<>>
    /\ meta = NoMeta
    /\ gen = NoGen
    /\ ret = [op |-> "init", err |-> "none", val |-> 0]
    /\ nparse = 0

Pending == out.err = "pending"

IsoToken == T("iso", DateTime(2015, 1, 5, 10, 0, 0), 0)

\* "2PM", "10PM", "2AM", "10:00AM", "2:30PM", "2015-01-05T10:00:00",
\* "2015-01-05T10:00:00.000Z", "soon", "v1.5"
TimeTokens ==
    { T("h", 2, 1), T("h", 10, 1), T("h", 2, 0), T("hm", 600, 0), T("hm", 150, 1),
      IsoToken, T("isofrac", DateTime(2015, 1, 5, 10, 0, 0), 0),
      T("word", 0, 0), T("dotword", 0, 0) }

DateStrings == {DateTokens(1, 5), DateTokens(12, 25)}

TimeStrings ==
    {<<>>} \cup {<<t>> : t \in TimeTokens} \cup DateStrings
    \cup {d \o <<t>> : d \in DateStrings, t \in TimeTokens}
    \cup {<<T("word", 0, 0), T("word", 1, 0)>>}

ReferenceStrings ==
    {NoReference, Reference(<<>>), Reference(<<T("word", 0, 0)>>), Reference(<<IsoToken>>)}
    \cup {Reference(d) : d \in DateStrings}
    \cup {Reference(d \o <<T("h", 10, 1)>>) : d \in DateStrings}

InitTime ==
    /\ StoreIdle
    /\ inp \in [f : {"_parse_time"}, time_str : TimeStrings, reference_date : ReferenceStrings]
    /\ out = Raise("pending")

CallParseTime ==
    /\ inp.f = "_parse_time"
    /\ Pending
    /\ out' = ParseTime(inp.time_str, inp.reference_date)
    /\ UNCHANGED <<src, cal_data, events, meta, gen, ret, nparse, inp>>

SpecTime == InitTime /\ [][CallParseTime]_vars

(* ----------------- the feed extractor on one content block ------------ *)

\* the longest content block (in lines) the feed extractor is run on
MaxLines == 3

\* "Recurring Event", "First start: 2015-01-05 10:00:00 PST",
\* "Duration: 3600", "Duration: -3600", "When: ...", "Where: Room",
\* "Event Description: Notes", "Event Status: confirmed"
FeedLineSet ==
    { <<T("Recurring", 0, 0), T("Event", 0, 0)>>,
      <<T("First", 0, 0), T("start:", 0, 0), T("ymd", DateTime(2015, 1, 5, 0, 0, 0), 0),
        T("hms", 36000, 0), Tz(PacificOffset)>>,
      <<T("Duration:", 0, 0), T("int", 3600, 0)>>,
      <<T("Duration:", 0, 0), T("int", 0 - 3600, 0)>>,
      <<T("When:", 0, 0), T("word", 9, 0)>>,
      <<T("Where:", 0, 0), T("word", 1, 0)>>,
      <<T("Event", 0, 0), T("Description:", 0, 0), T("word", 2, 0)>>,
      <<T("Event", 0, 0), T("word", 3, 0), T("word", 4, 0)>> }

\* "When: Mon Jan 5, 2015 10PM to 2AM PST", "When: Mon Jan 5, 2015 10:00AM to
\* 2:30PM PST", "When: Mon Jan 5, 2015", "When: Mon Jan 5, 2015 10PM PST"
WhenTexts ==
    { <<T("When:", 0, 0)>> \o DateTokens(1, 5)
        \o <<T("h", 10, 1), T("to", 0, 0), T("h", 2, 0), Tz(PacificOffset)>>,
      <<T("When:", 0, 0)>> \o DateTokens(1, 5)
        \o <<T("hm", 600, 0), T("to", 0, 0), T("hm", 150, 1), Tz(PacificOffset)>>,
      <<T("When:", 0, 0)>> \o DateTokens(1, 5),
      <<T("When:", 0, 0)>> \o DateTokens(1, 5) \o <<T("h", 10, 1), Tz(PacificOffset)>> }

InitFeed ==
    /\ StoreIdle
    /\ inp \in [f : {"parse_xml"},
                event : [name : {"Team"}, when : WhenTexts, lines : SeqsUpTo(FeedLineSet, MaxLines)]]
    /\ out = Raise("pending")

\* the loop body of parse_xml on one content block
ScanBlock ==
    /\ inp.f = "parse_xml"
    /\ Pending
    /\ out' = ParseXmlEvent(inp.event)
    /\ UNCHANGED <<src, cal_data, events, meta, gen, ret, nparse, inp>>

SpecFeed == InitFeed /\ [][ScanBlock]_vars

(* ----------------- the ICS extractor on one VEVENT -------------------- *)

\* an optional property: <<>> (absent) or <<value>>
With(d, key, opt) == IF opt = <<>> THEN d ELSE Put(d, key, opt[1])

Jan5At(hh, mm, ss) == DateTime(2015, 1, 5, hh, mm, ss)

\* DTSTART / DTEND values: dates, UTC datetimes, a naive datetime
StartValues ==
    { <<>>, <<DateOnly(DateTime(2015, 12, 25, 0, 0, 0))>>, <<Aware(Jan5At(18, 0, 0), 0)>>,
      <<Aware(Jan5At(8, 0, 30), 0)>> }

EndValues ==
    { <<>>, <<DateOnly(DateTime(2015, 12, 26, 0, 0, 0))>>, <<Aware(Jan5At(19, 0, 0), 0)>>,
      <<Aware(DateTime(2015, 1, 6, 8, 0, 30), 0)>>, <<Naive(Jan5At(1, 0, 0))>> }

RuleValues ==
    { With(With(With(With(With(EmptyEvent, "FREQ", fr), "BYDAY", bd), "BYMONTHDAY", bmd),
                "BYMONTH", bm), "UNTIL", un) :
        fr \in {<<>>, << <<"YEARLY">> >>, << <<"WEEKLY">> >>},
        bd \in {<<>>, << <<WeekdayCode("MO")>> >>},
        bmd \in {<<>>, << <<25>> >>},
        bm \in {<<>>, << <<12>> >>},
        un \in {<<>>, << <<Aware(DateTime(2015, 12, 31, 8, 0, 0), 0)>> >>} }

IcsEvents ==
    { [type |-> "VEVENT",
       props |-> With(With(With(With(EmptyEvent, "SUMMARY", sm), "DTSTART", ds), "DTEND", de),
                      "RRULE", rr)] :
        sm \in {<<>>, <<"Team">>},
        ds \in StartValues,
        de \in EndValues,
        rr \in {<<>>} \cup {<<r>> : r \in RuleValues} }

InitIcs ==
    /\ StoreIdle
    /\ inp \in [f : {"parse_ics"}, event : IcsEvents, time_zone : {0, PacificOffset}]
    /\ out = Raise("pending")

\* the loop body of parse_ics on one VEVENT
ReadEvent ==
    /\ inp.f = "parse_ics"
    /\ Pending
    /\ out' = ParseIcsEvent(inp.event, inp.time_zone)
    /\ UNCHANGED <<src, cal_data, events, meta, gen, ret, nparse, inp>>

SpecIcs == InitIcs /\ [][ReadEvent]_vars

(* ------------------------------ properties ---------------------------- *)

\* The EventRecord invariant: start_time <= end_time when both are set, and
\* an all-day record spans exactly one day from midnight to midnight.
EventRecordInvariant(e) ==
    /\ ("start_time" \in DOMAIN e /\ "end_time" \in DOMAIN e) => e["start_time"] <= e["end_time"]
    /\ ("all_day" \in DOMAIN e /\ e["all_day"]) =>
           /\ "start_time" \in DOMAIN e /\ "end_time" \in DOMAIN e
           /\ e["end_time"] = e["start_time"] + OneDay
           /\ e["start_time"] % 86400 = 0
           /\ e["end_time"] % 86400 = 0

\* C7: every record the feed extractor produces satisfies the EventRecord
\* invariant (start_time <= end_time; all_day implies a span of exactly one
\* day between two midnights), whatever "When:" span or "Duration:" it read.
C7_RecordInvariant ==
    (inp.f = "parse_xml" /\ out.err = "none") => EventRecordInvariant(out.val)

\* C8: _parse_time asks for a reference only for a token without a date: a
\* lone ISO token without a reference parses to the date-time it denotes, a
\* lone token with a decimal point is cut at the point and parsed, a lone
\* hour-only token without a reference fails, and a string of no accepted
\* shape fails with ValueError.
C8_SingleTokenRule ==
    (inp.f = "_parse_time" /\ ~Pending) =>
        /\ (Len(inp.time_str) = 1 /\ inp.time_str[1].k = "iso" /\ ~inp.reference_date.set)
               => out = Ok(inp.time_str[1].v)
        /\ (Len(inp.time_str) = 1 /\ inp.time_str[1].k = "isofrac")
               => out = Ok(inp.time_str[1].v)
        /\ (Len(inp.time_str) = 1 /\ inp.time_str[1].k \in {"h", "hm"} /\ ~inp.reference_date.set)
               => out.err # "none"
        /\ (Len(inp.time_str) # 1 /\ \A i \in 1..4 : ~StrptimeMatches(inp.time_str, i))
               => out.err = "ValueError"

StartsWith(line, a) == Len(line) > 1 /\ line[1].k = a

StartsWithPair(line, a, b) == Len(line) > 2 /\ line[1].k = a /\ line[2].k = b

\* the last line of the block that satisfies Is
LastLine(lines, Is(_)) ==
    lines[CHOOSE i \in 1..Len(lines) : Is(lines[i]) /\ \A j \in (i + 1)..Len(lines) : ~Is(lines[j])]

IsWhereLine(line) == StartsWith(line, "Where:")

IsDescriptionLine(line) == StartsWithPair(line, "Event", "Description:")

\* C9: in the feed extractor's scan of a block, a line starting "Where: " sets
\* location and a line starting "Event Description: " sets description (the
\* text after the prefix), whether or not an earlier line of the block
\* contained "Recurring Event"; repeats is true iff some line contains it.
C9_WhereAndDescription ==
    (inp.f = "parse_xml" /\ out.err = "none") =>
        /\ (\E i \in 1..Len(inp.event.lines) : IsWhereLine(inp.event.lines[i])) =>
               /\ "location" \in DOMAIN out.val
               /\ out.val["location"] = Tail(LastLine(inp.event.lines, IsWhereLine))
        /\ (\E i \in 1..Len(inp.event.lines) : IsDescriptionLine(inp.event.lines[i])) =>
               /\ "description" \in DOMAIN out.val
               /\ out.val["description"] = Tail(Tail(LastLine(inp.event.lines, IsDescriptionLine)))
        /\ out.val["repeats"] =
               (\E i \in 1..Len(inp.event.lines) :
                    ContainsPair(inp.event.lines[i], "Recurring", "Event"))

RepeatKeys == {"repeat_freq", "repeat_day", "repeat_month", "repeat_until"}

\* the recurrence fields of record r, for the rule rr of its VEVENT
RuleDecoded(r, rr) ==
    /\ r["repeat_freq"] = rr["FREQ"][1]
    /\ IF "BYDAY" \in DOMAIN rr THEN r["repeat_day"] = rr["BYDAY"][1]
       ELSE IF "BYMONTHDAY" \in DOMAIN rr THEN r["repeat_day"] = DayNumber(rr["BYMONTHDAY"][1])
       ELSE IF rr["FREQ"][1] = "YEARLY" THEN r["repeat_day"] = DayNumber(DayOf(r["start_time"]))
       ELSE "repeat_day" \notin DOMAIN r
    /\ IF "BYMONTH" \in DOMAIN rr THEN r["repeat_month"] = rr["BYMONTH"][1]
       ELSE IF rr["FREQ"][1] = "YEARLY" THEN r["repeat_month"] = MonthOf(r["start_time"])
       ELSE "repeat_month" \notin DOMAIN r
    /\ ("repeat_until" \in DOMAIN r) = ("UNTIL" \in DOMAIN rr)

SetSources(s) == {k \in DOMAIN s : s[k]}

\* C1: parse on a store with no source set fails with the configuration
\* error ("No calendar url or file path has been set."), whatever the flags,
\* and leaves the stored event list as it was.
C1_NoSourceFails ==
    (src = NoSource /\ ret.op = "parse_calendar") =>
        (ret.err = "UnboundLocalError" /\ events = <<>>)

\* C2: with exactly one source set and no format override, parse picks the
\* extractor of the source's format, and its sequence never ends with a
\* configuration failure: a file source parses like the url source.
C2_SingleSourceParses ==
    (Cardinality(SetSources(src)) = 1 /\ gen.st # "none" /\ ~gen.forced) =>
        /\ gen.kind = (IF src.ics_url \/ src.ics_file THEN "ics" ELSE "xml")
        /\ gen.err \notin {"AssertionError", "UnboundLocalError"}

\* C3 as stated: once a parse with overwrite disabled has been driven to
\* exhaustion, the stored list is the list held before the call followed by
\* the produced records.
C3_AppendsWhenNotOverwriting ==
    (gen.st = "done" /\ ~gen.ow /\ ~gen.mut) => events = gen.pre \o gen.out

\* C3 amended: a parse with overwrite disabled never changes the stored list;
\* once driven to exhaustion the stored list is still the list held before
\* the call, and the produced records are not in it.
C3_KeepsListWhenNotOverwriting ==
    (gen.st # "none" /\ ~gen.ow /\ ~gen.mut) => events = gen.pre

C3_Witness ==
    /\ gen.st = "done" /\ ~gen.ow /\ ~gen.mut
    /\ gen.pre # <<>>
    /\ Len(gen.out) >= 2
    /\ events = gen.pre

\* the units of a document that parse_ics / parse_xml turn into records
EventUnits(kind, units) ==
    IF kind = "ics" THEN SelectSeq(units, LAMBDA u : u.type = "VEVENT") ELSE units

RecordsOf(kind, units, time_zone) ==
    [i \in 1..Len(EventUnits(kind, units)) |->
        ParseUnit(kind, EventUnits(kind, units)[i], time_zone).val]

\* C4: with overwrite enabled the stored list is untouched until the first
\* element is requested; after each element the stored list is exactly the
\* records produced so far; and once the sequence is exhausted it is the whole
\* produced sequence, one record per content block / VEVENT in source order,
\* whatever it held before.
C4_LazyOverwrite ==
    /\ (gen.st = "fresh" /\ ~gen.mut) => events = gen.pre
    /\ (gen.st = "running" /\ gen.ow /\ ~gen.mut) => events = gen.out
    /\ (gen.st = "done" /\ gen.ow /\ ~gen.mut) =>
           /\ events = gen.out
           /\ events = RecordsOf(gen.kind, cal_data.units, meta.time_zone)

\* a second parse, started on a list that differs from what it produces, has
\* been driven to exhaustion
C4_Witness ==
    /\ gen.st = "done" /\ gen.ow /\ ~gen.mut
    /\ nparse = 2
    /\ gen.pre # <<>> /\ gen.pre # gen.out
    /\ Len(gen.out) >= 2
    /\ events = gen.out

Named(e, item) == "name" \in DOMAIN e /\ Lower(e["name"]) = Lower(item)

NamedLike(evs, item) == SelectSeq(evs, LAMBDA e : Named(e, item))

\* C5: for every stored list produced by parse and every key, lookup by name
\* returns the single match, or the list of matches in stored order, or fails
\* when there is none, and the membership test is true exactly when the
\* lookup succeeds.
C5_LookupByName ==
    \A item \in LookupKeys :
        /\ Len(NamedLike(events, item)) = 0 =>
               GetItem(events, item).err \in {"LookupError", "KeyError"}
        /\ Len(NamedLike(events, item)) = 1 =>
               /\ GetItem(events, item).err = "none"
               /\ GetItem(events, item).val = [one |-> TRUE, items |-> NamedLike(events, item)]
        /\ Len(NamedLike(events, item)) > 1 =>
               /\ GetItem(events, item).err = "none"
               /\ GetItem(events, item).val = [one |-> FALSE, items |-> NamedLike(events, item)]
        /\ (Contains(events, item).err = "none" /\ Contains(events, item).val)
               <=> (GetItem(events, item).err = "none")

AllHaveStart(evs) == \A i \in 1..Len(evs) : "start_time" \in DOMAIN evs[i]

StartTimes(s) == [i \in 1..Len(s) |-> s[i]["start_time"]]

StartingAt(s, t) == SelectSeq(s, LAMBDA e : e["start_time"] = t)

\* the records of evs that share a start_time are in the same order in result
KeepsTies(result, evs) ==
    \A i \in 1..Len(evs) :
        StartingAt(result, evs[i]["start_time"]) = StartingAt(evs, evs[i]["start_time"])

NoTies(evs) ==
    \A i, j \in 1..Len(evs) : i # j => evs[i]["start_time"] # evs[j]["start_time"]

\* C6 as stated: on a stored list whose records all have a start_time, the
\* results of sort_by_oldest and sort_by_latest are exact reverses of each
\* other, and both keep events with the same start_time in stored order.
C6_ExactReverses ==
    AllHaveStart(events) =>
        /\ SortedDescending(events).val = Reverse(SortedAscending(events).val)
        /\ KeepsTies(SortedAscending(events).val, events)
        /\ KeepsTies(SortedDescending(events).val, events)

\* C6 amended: both results keep events with the same start_time in stored
\* order; the start_times of one result are those of the other reversed
\* (ascending in sort_by_oldest); and the results are exact reverses of each
\* other when no two stored events share a start_time.
C6_ReversedUpToTies ==
    AllHaveStart(events) =>
        /\ SortedAscending(events).err = "none" /\ SortedDescending(events).err = "none"
        /\ KeepsTies(SortedAscending(events).val, events)
        /\ KeepsTies(SortedDescending(events).val, events)
        /\ \A i \in 1..(Len(events) - 1) :
               StartTimes(SortedAscending(events).val)[i]
                   <= StartTimes(SortedAscending(events).val)[i + 1]
        /\ StartTimes(SortedDescending(events).val)
               = Reverse(StartTimes(SortedAscending(events).val))
        /\ NoTies(events) =>
               SortedDescending(events).val = Reverse(SortedAscending(events).val)

\* sort_by_latest has returned, on a list with two different records that
\* share a start_time
C6_Witness ==
    /\ ret.op = "sort_by_latest" /\ ret.err = "none"
    /\ AllHaveStart(events)
    /\ ret.val = SortedDescending(events).val
    /\ \E i, j \in 1..Len(events) :
           i # j /\ events[i] # events[j] /\ events[i]["start_time"] = events[j]["start_time"]

====
